---- MODULE Spec2Model ----
(***************************************************************************)
(* Batch document generation engine (document_generator.py).              *)
(*                                                                         *)
(* The model follows DocumentGenerator.generate: the precondition checks,  *)
(* the folder pre-creation, the single-process loop, and the multi-process *)
(* path (partition into chunks, the process pool, as_completed merging).   *)
(* Strings are sequences of one-character strings, so that the sanitizer   *)
(* and the path allocator are computed and not assumed.                    *)
(***************************************************************************)
EXTENDS Integers, Sequences, FiniteSets, TLC

(***************************************************************************)
(* Program constants and bounds                                            *)
(***************************************************************************)
\* generate: "if not use_multiprocessing or total_rows <= 50"
SingleProcessThreshold == 50
\* _generate_multiprocess: "chunk_size = max(50, total_rows // max_workers)"
MinChunkSize == 50
\* _generate_single_process: "if idx % 10 == 0 or idx == total_rows"
ProgressEvery == 10
\* progress_cb(100, ...) at the end of both modes
FinalProgress == 100
\* ProcessPoolExecutor keeps max_workers + 1 calls in its call queue
ExtraQueuedCalls == 1

\* the path allocator alone is called with up to MaxProbes numbered
\* variants of its path in a row on disk
MaxProbes == 10
\* the names alone are built for field values of up to MaxNameLen characters
MaxNameLen == 3
\* datasets below the threshold have 0..MaxSmallRows rows
MaxSmallRows == 3
\* datasets at the threshold and above have 50..50+MaxExtraRows rows
MaxExtraRows == 2
\* max_workers ranges over 1..MaxWorkers
MaxWorkers == 2
\* the context alone is built for rows of up to MaxFields columns
MaxFields == 3
\* the partition into chunks alone is computed for datasets of up to
\* MaxPartitionRows rows and pools of up to MaxPartitionWorkers workers
MaxPartitionRows == 160
MaxPartitionWorkers == 3

RowCounts == (0..MaxSmallRows)
             \cup (SingleProcessThreshold..(SingleProcessThreshold + MaxExtraRows))

(***************************************************************************)
(* Strings                                                                 *)
(***************************************************************************)
IllegalChars == {"<", ">", ":", "\"", "/", "\\", "|", "?", "*"}
\* the whitespace str.strip() removes: the space, the tab and the newline
Whitespace == {" ", "\t", "\n"}

DigitChar == <<"0", "1", "2", "3", "4", "5", "6", "7", "8", "9">>

RECURSIVE Digits(_)
\* str(n) for n >= 0, as in the f-strings
Digits(n) == IF n < 10 THEN <<DigitChar[n + 1]>>
             ELSE Digits(n \div 10) \o <<DigitChar[(n % 10) + 1]>>

RECURSIVE LStrip(_)
LStrip(s) == IF s # << >> /\ Head(s) \in Whitespace THEN LStrip(Tail(s)) ELSE s

RECURSIVE RStrip(_)
RStrip(s) == IF s # << >> /\ s[Len(s)] \in Whitespace
             THEN RStrip(SubSeq(s, 1, Len(s) - 1)) ELSE s

\* str.strip()
Strip(s) == RStrip(LStrip(s))

RECURSIVE SubIllegal(_)
\* re.sub(r'[<>:"/\\|?*]+', '_', s): every maximal run becomes one "_"
SubIllegal(s) ==
    IF s = << >> THEN << >>
    ELSE IF Head(s) \in IllegalChars
         THEN IF Len(s) > 1 /\ s[2] \in IllegalChars
              THEN SubIllegal(Tail(s))
              ELSE <<"_">> \o SubIllegal(Tail(s))
         ELSE <<Head(s)>> \o SubIllegal(Tail(s))

SanitizeWithoutDefault(filename, default_name) == SubIllegal(Strip(filename))

\* _sanitize_filename(filename, default_name)
SanitizeFilename(filename, default_name) ==
    LET sanitized == SubIllegal(Strip(filename))
    IN  IF sanitized = << >> THEN default_name ELSE sanitized

DefaultFolder(idx) == <<"folder_">> \o Digits(idx)
DefaultFile(idx) == <<"file_">> \o Digits(idx)

\* os.path.join(output_path, folder_name); output_path is the root "out"
FolderPath(folder_name) == <<"out", "/">> \o folder_name

\* os.path.join(folder_path, f"{file_name}.docx")
FilePath(folder_name, file_name) ==
    FolderPath(folder_name) \o <<"/">> \o file_name \o <<".", "d", "o", "c", "x">>

\* str.rfind(ch), counted from 1: 0 when ch is not in p
LastIndexOf(p, ch) ==
    IF \E k \in 1..Len(p) : p[k] = ch
    THEN CHOOSE k \in 1..Len(p) : p[k] = ch /\ \A j \in (k + 1)..Len(p) : p[j] # ch
    ELSE 0

\* os.path.splitext(p): where ext starts. The extension starts at the last
\* dot of the last component, when a character other than a dot precedes
\* it in that component; else the extension is empty.
ExtStart(p) ==
    LET sepIndex == LastIndexOf(p, "/")
        dotIndex == LastIndexOf(p, ".")
    IN  IF dotIndex > sepIndex /\ \E k \in (sepIndex + 1)..(dotIndex - 1) : p[k] # "."
        THEN dotIndex ELSE Len(p) + 1

\* f"{base_path}_{counter}{ext}" with base_path, ext = os.path.splitext(file_path)
\* (file_path is bound as an element of a set, so that it is evaluated once)
Variant(file_path, counter) ==
    LET Numbering(p, ext) ==
            SubSeq(p, 1, ext - 1) \o <<"_">> \o Digits(counter) \o SubSeq(p, ext, Len(p))
    IN  CHOOSE v \in {Numbering(p, ExtStart(p)) : p \in {file_path}} : TRUE

RECURSIVE ProbeFrom(_, _, _)
ProbeOnce(file_path, counter, existing) == Variant(file_path, counter)

\* the while-loop of _unique_file_path, from counter
ProbeFrom(file_path, counter, existing) ==
    IF Variant(file_path, counter) \notin existing
    THEN Variant(file_path, counter)
    ELSE ProbeFrom(file_path, counter + 1, existing)

\* _unique_file_path(file_path) against the files that exist now
UniqueFilePath(file_path, existing) ==
    IF file_path \notin existing THEN file_path
    ELSE ProbeFrom(file_path, 1, existing)

(***************************************************************************)
(* Inputs of one generate call                                             *)
(***************************************************************************)
\* folder_field, file_field: the two columns chosen by the caller
folder_field == "folder"
file_field == "file"

\* str.replace(" ", "_") on a column name, for the column names of the
\* model: "C D" is the one that holds a space
Underscored(field) == IF field = "C D" THEN "C_D" ELSE field

\* A row holds the three columns, and the verdict of the rendering engine
\* for the row's template and context ("ok", "missing": a placeholder is
\* not in the context, "error": any other exception of render).
\* For a row with the verdict "missing", keep is the verdict of the second
\* render, the one with missing_tags='keep'.
RowPlain ==   [folder |-> <<"F">>, file |-> << >>, kind |-> << >>,
               render |-> "ok", keep |-> "ok"]
RowNamed ==   [folder |-> <<"F">>, file |-> <<"a">>, kind |-> <<"x">>,
               render |-> "ok", keep |-> "ok"]
RowDefault == [folder |-> << >>, file |-> <<" ">>, kind |-> << >>,
               render |-> "missing", keep |-> "ok"]
RowBroken ==  [folder |-> <<"F">>, file |-> <<"b", "/", "?">>, kind |-> <<" ", "y">>,
               render |-> "error", keep |-> "ok"]
RowStubborn == [folder |-> <<"F">>, file |-> << >>, kind |-> << >>,
               render |-> "missing", keep |-> "error"]
Profiles == {RowPlain, RowNamed, RowDefault, RowBroken, RowStubborn}

\* The datasets: every row is RowPlain (its file name is the default of its
\* index), but for the marked rows, which all hold the profile marked_row:
\* the first two rows and the first row past the single-process threshold.

\* the template files on disk, and the template paths of the configuration
TemplatePaths == {"T0", "T1"}
NoMapping == [priority |-> << >>, hasPriority |-> FALSE, fields |-> << >>]
\* a sub-mapping: its column, whether it is a dict, and its items
KindEntry == [field |-> "kind", isDict |-> TRUE,
              mapping |-> {<< <<"x">>, "T1" >>, << <<"y">>, "T2" >>}]
KindMapping == [priority |-> << >>, hasPriority |-> FALSE, fields |-> <<KindEntry>>]
Mappings == {NoMapping, KindMapping}

\* the environment faults a run may meet: the progress callback raises,
\* a chunk's future raises, os.makedirs raises
Faults == {"callback", "chunk", "makedirs"}

VARIABLES
    total_rows,          \* len(rows)
    marked_row,          \* the profile of the marked rows of the dataset
    ignore_missing,
    word_template_path,
    template_mapping,
    use_multiprocessing,
    max_workers,
    templateFiles,       \* template paths that exist and are readable
    faults,              \* the faults this run's environment may produce
    pc,                  \* where the generate call is
    mode,                \* the mode generate chose: "none", "single", "multi"
    broke,               \* the loop of the mode ended by its break
    done_at_break,       \* multi process: the futures finished at the break
    cancel_event,
    events,              \* the percents passed to progress_cb, in order
    folders,             \* output folders that exist
    written,             \* <<path, idx>>: the job of row idx saved to path
    attempts,            \* per row: how many jobs were started for it
    outcomes,            \* per row: how many outcomes its jobs produced
    idx,                 \* single process: the loop variable
    successful_count,    \* the scheduler's running total
    error_messages,      \* the scheduler's running error list
    completed,           \* multi process: completions merged
    fut,                 \* per chunk: the state of its future
    wpos,                \* per chunk: the row its worker is at
    wfile,               \* per chunk: output_file of the row in progress
    wcount,              \* per chunk: the worker's successful_count
    werrs,               \* per chunk: the worker's error_messages
    merged,              \* chunks whose completion the loop has merged
    ret,                 \* the tuple generate returned
    makedirs_called,     \* the folders os.makedirs was called for
    renders,             \* per row: the calls of doc.render made for it
    template_cache,      \* single process: the paths in its template_cache
    reads,               \* single process: per path, the reads from disk
    wcache,              \* per chunk: the paths in the worker's template_cache
    wreads,              \* per chunk: per path, the worker's reads from disk
    chunks,              \* the list of chunks _generate_multiprocess prepared
    resolved,            \* the template path resolved for a row
    row_dict,            \* a row, as the ordered list of its <<name, value>>
    context,             \* the context built for row_dict
    names,               \* folder_name and file_name of a row
    candidate,           \* the file_path _unique_file_path is called with
    allocated,           \* the paths the calls of _unique_file_path returned
    verdicts             \* the outcome of one row in either job function

inputs == <<total_rows, marked_row, ignore_missing, word_template_path,
            template_mapping, use_multiprocessing, max_workers,
            templateFiles, faults>>
disk == <<folders, written>>

\* the output files that exist: the output folder starts empty
files == {w[1] : w \in written}
jobs == <<attempts, outcomes>>
totals == <<successful_count, error_messages, completed>>
workers == <<fut, wpos, wfile, wcount, werrs>>
caches == <<template_cache, reads, wcache, wreads>>
engine == <<makedirs_called, renders, caches>>
pure == <<chunks, resolved, row_dict, context, names, candidate, allocated, verdicts>>
control == <<pc, mode, broke, done_at_break>>
vars == <<inputs, control, cancel_event, events, disk, jobs, idx, totals,
          workers, merged, ret, engine, pure>>

Marked(i) == i \in {1, 2, SingleProcessThreshold + 1}

\* rows[idx-1]
Row(i) == IF Marked(i) THEN marked_row ELSE RowPlain

\* row_dict.get(field, "")
RowGet(row, field) == IF field \in DOMAIN row THEN row[field] ELSE << >>

\* row_dict.get(field, "") or row_dict.get(field.replace(" ", "_"), "")
RowValue(row, field) ==
    IF RowGet(row, field) # << >> THEN RowGet(row, field)
    ELSE RowGet(row, Underscored(field))

FolderName(i) == SanitizeFilename(RowValue(Row(i), folder_field), DefaultFolder(i))
FileName(i) == SanitizeFilename(RowValue(Row(i), file_field), DefaultFile(i))

(***************************************************************************)
(* Template validation and resolution                                      *)
(***************************************************************************)
\* "if template_mapping:" - a dict is true when it has a key
MappingGiven(m) == m.hasPriority \/ m.fields # << >>

\* the values of every sub-mapping: "if isinstance(mapping, dict)"
MappingTemplates(m) ==
    UNION {{kv[2] : kv \in m.fields[k].mapping} :
              k \in {j \in 1..Len(m.fields) : m.fields[j].isDict}}

\* template_paths_to_check
TemplatePathsToCheck ==
    {word_template_path}
      \cup (IF MappingGiven(template_mapping)
            THEN MappingTemplates(template_mapping) ELSE {})

\* valid_templates: "if tp and os.path.exists(tp) and os.access(tp, os.R_OK)"
ValidTemplates == {tp \in TemplatePathsToCheck : tp # "" /\ tp \in templateFiles}

\* "value in mapping" and mapping[value]
Mapped(mapping, value) == {kv[2] : kv \in {e \in mapping : e[1] = value}}

\* str(row value).strip() for one field of the mapping
LookupValue(row, field) == Strip(RowValue(row, field))

RECURSIVE FirstHit(_, _, _)
\* the for-loop over the fields: the template of the first field that hits
FirstFieldOnly(entries, row, fallback) ==
    IF entries = << >> THEN fallback
    ELSE LET e == Head(entries)
             hits == Mapped(e.mapping, LookupValue(row, e.field))
         IN  IF hits # {} THEN CHOOSE tp \in hits : TRUE ELSE fallback

FirstHit(entries, row, fallback) ==
    IF entries = << >> THEN fallback
    ELSE LET e == Head(entries)
             hits == Mapped(e.mapping, LookupValue(row, e.field))
         IN  IF hits # {} THEN CHOOSE tp \in hits : TRUE
             ELSE FirstHit(Tail(entries), row, fallback)

\* the entries of the fields of the priority list that are keys of the mapping
PriorityEntries(m) ==
    LET Entry(f) == {k \in 1..Len(m.fields) : m.fields[k].field = f}
        F[n \in 0..Len(m.priority)] ==
            IF n = 0 THEN << >>
            ELSE IF Entry(m.priority[n]) = {} THEN F[n - 1]
                 ELSE F[n - 1] \o <<m.fields[CHOOSE k \in Entry(m.priority[n]) : TRUE]>>
    IN  F[Len(m.priority)]

\* the template path of a row: the mapping's first hit, else the base template
ResolveTemplate(row) ==
    IF ~MappingGiven(template_mapping) THEN word_template_path
    ELSE IF template_mapping.hasPriority
         THEN FirstHit(PriorityEntries(template_mapping), row, word_template_path)
         ELSE FirstHit(template_mapping.fields, row, word_template_path)

RECURSIVE LookupRaises(_, _)
\* the for-loop over the fields raises: "value in mapping" is a TypeError
\* for a sub-mapping that is no container (a number, None), when the loop
\* reaches it before a hit
LookupRaises(entries, row) ==
    IF entries = << >> THEN FALSE
    ELSE LET e == Head(entries)
         IN  IF ~e.isDict THEN TRUE
             ELSE IF Mapped(e.mapping, LookupValue(row, e.field)) # {} THEN FALSE
             ELSE LookupRaises(Tail(entries), row)

\* the template selection of a row raises
SelectionRaises(row) ==
    /\ MappingGiven(template_mapping)
    /\ IF template_mapping.hasPriority
       THEN LookupRaises(PriorityEntries(template_mapping), row)
       ELSE LookupRaises(template_mapping.fields, row)

\* _process_single_document: template_path after the selection, whose
\* exception is passed over
SingleTemplatePath(row) ==
    IF SelectionRaises(row) THEN word_template_path ELSE ResolveTemplate(row)

(***************************************************************************)
(* One job: the outcome of a row                                           *)
(***************************************************************************)
\* the candidate output file of row i, before _unique_file_path
OutputFile(i) == FilePath(FolderName(i), FileName(i))

\* "if not template_path or template_path not in valid_templates" is false
TemplateUsable(tp) == tp # "" /\ tp \in ValidTemplates

CacheAlwaysMiss(tp, cache) == TRUE

\* _load_template_from_cache: "if template_path not in template_cache"
CacheMiss(tp, cache) == tp \notin cache

\* _load_template_from_cache: the cache after the load of tp
CacheAfterLoad(tp, cache) == IF CacheMiss(tp, cache) THEN cache \cup {tp} ELSE cache

\* the reads from disk of a cache that has read nothing
NoReads == [p \in TemplatePaths |-> 0]

\* _load_template_from_cache: "with open(template_path, 'rb') as f" on a miss
ReadsAfterLoad(tp, cache, n) ==
    IF CacheMiss(tp, cache) THEN [n EXCEPT ![tp] = @ + 1] ELSE n

\* the calls of doc.render for a row: the second one is the retry, made
\* when the first reported a missing placeholder and ignore_missing is set
RenderCalls(row) == IF row.render = "missing" /\ ignore_missing THEN 2 ELSE 1

RenderSwallowsErrors(row) ==
    IF row.render = "missing" /\ ~ignore_missing THEN "missing_placeholder"
    ELSE "rendered"

RenderNoRetry(row) ==
    CASE row.render = "ok" -> "rendered"
      [] row.render = "missing" -> "missing_placeholder"
      [] OTHER -> "exception"

\* render, and the retry with missing_tags='keep':
\* "rendered", "missing_placeholder" or "exception"
Render(row) ==
    CASE row.render = "ok" -> "rendered"
      [] row.render = "missing" ->
            IF ignore_missing
            THEN (IF row.keep = "ok" THEN "rendered" ELSE "exception")
            ELSE "missing_placeholder"
      [] OTHER -> "exception"

ProcessSingleDocumentUnchecked(i) ==
    IF Render(Row(i)) # "rendered" THEN Render(Row(i))
    ELSE IF FolderPath(FolderName(i)) \notin folders THEN "exception"
    ELSE "success"

\* _process_single_document: "success", or the kind of the one error of
\* the returned dict
ProcessSingleDocument(i) ==
    LET template_path == SingleTemplatePath(Row(i))
    IN  IF template_path = "" \/ template_path \notin ValidTemplates
        THEN "template_unavailable"
        ELSE IF Render(Row(i)) # "rendered" THEN Render(Row(i))
        ELSE IF FolderPath(FolderName(i)) \notin folders THEN "exception"
        ELSE "success"

\* the body of the row loop of _worker_process_chunk: "success", or the
\* kind of the one message appended to error_messages
WorkerProcessRow(i) ==
    LET template_path == ResolveTemplate(Row(i))
    IN  IF SelectionRaises(Row(i)) THEN "selection_failed"
        ELSE IF template_path = "" THEN "no_template"
        ELSE IF template_path \notin ValidTemplates THEN "template_unavailable"
        ELSE IF Render(Row(i)) # "rendered" THEN Render(Row(i))
        ELSE IF FolderPath(FolderName(i)) \notin folders THEN "exception"
        ELSE "success"

(***************************************************************************)
(* Chunks                                                                  *)
(***************************************************************************)
Max(a, b) == IF a >= b THEN a ELSE b
Min(a, b) == IF a <= b THEN a ELSE b

\* chunk_size = max(50, total_rows // max_workers)
ChunkSize == Max(MinChunkSize, total_rows \div max_workers)

\* len(chunks): one chunk per i in range(0, total_rows, chunk_size)
TotalChunks == (total_rows + ChunkSize - 1) \div ChunkSize

\* chunk c (1-based) is the one of i = (c - 1) * chunk_size
ChunkStartIdx(c) == (c - 1) * ChunkSize + 1

ChunkLastOverlaps(c) == Min((c - 1) * ChunkSize + ChunkSize + 1, total_rows)

ChunkLastShort(c) == Min((c - 1) * ChunkSize + ChunkSize, total_rows) - 1

\* its chunk_data: idx in range(i + 1, min(i + chunk_size, total_rows) + 1)
ChunkLast(c) == Min((c - 1) * ChunkSize + ChunkSize, total_rows)

ChunkIds == 1..TotalChunks

ChunkDataFromZero(i) ==
    [k \in 1..(Min(i + ChunkSize, total_rows) - i) |->
        [idx |-> i + k - 1, row |-> (i + k - 1) + 1]]

\* chunk_data of the chunk of offset i:
\* [(idx, rows[idx-1]) for idx in range(i+1, min(i+chunk_size, total_rows)+1)],
\* a row being named by its position in rows, counted from 1
ChunkData(i) ==
    [k \in 1..(Min(i + ChunkSize, total_rows) - i) |->
        [idx |-> i + k, row |-> (i + k - 1) + 1]]

RECURSIVE ChunksFrom(_)
\* "for i in range(0, total_rows, chunk_size): chunks.append(...)", from i
ChunksFrom(i) ==
    IF i >= total_rows THEN << >>
    ELSE <<[chunk_data |-> ChunkData(i), chunk_start_idx |-> i + 1]>>
           \o ChunksFrom(i + ChunkSize)

(***************************************************************************)
(* The environment                                                         *)
(***************************************************************************)
\* whether a call of progress_cb raises
CallbackRaises == IF "callback" \in faults THEN BOOLEAN ELSE {FALSE}

\* whether the future of a chunk raises instead of returning a result
ChunkRaises == IF "chunk" \in faults THEN BOOLEAN ELSE {FALSE}

FoldersOfFirstRow == {FolderPath(FolderName(1))}

\* the folders of this run
FoldersToCreate == {FolderPath(FolderName(i)) : i \in 1..total_rows}

\* the folders for which os.makedirs raises: none, or the folder "F"
MakedirsFailures ==
    IF "makedirs" \in faults
    THEN {{}, FoldersToCreate \cap {FolderPath(<<"F">>)}}
    ELSE {{}}

\* the tuple generate returns
RunResult(count, errors, fatal) ==
    [successful_count |-> count, error_messages |-> errors, fatal_error |-> fatal]

FatalResultKeepsTotals == RunResult(successful_count, error_messages, TRUE)

\* "except Exception as e: return 0, [], e"
FatalResult == RunResult(0, << >>, TRUE)

\* the state at the call of generate, for the output files that exist
\* then: a file <<path, 0>> was written by no row of this run
InitRunWith(existing) ==
    /\ pc = "idle"
    /\ mode = "none"
    /\ broke = FALSE
    /\ done_at_break = {}
    /\ cancel_event = FALSE
    /\ events = << >>
    /\ folders = {}
    /\ written = {<<f, 0>> : f \in existing}
    /\ attempts = [i \in 1..total_rows |-> 0]
    /\ outcomes = [i \in 1..total_rows |-> 0]
    /\ idx = 0
    /\ successful_count = 0
    /\ error_messages = << >>
    /\ completed = 0
    /\ fut = << >>
    /\ wpos = << >>
    /\ wfile = << >>
    /\ wcount = << >>
    /\ werrs = << >>
    /\ merged = {}
    /\ ret = RunResult(0, << >>, FALSE)
    /\ makedirs_called = {}
    /\ renders = [i \in 1..total_rows |-> 0]
    /\ template_cache = {}
    /\ reads = NoReads
    /\ wcache = << >>
    /\ wreads = << >>
    /\ chunks = << >>
    /\ resolved = ""
    /\ context = << >>
    /\ allocated = << >>
    /\ names = << >>
    /\ verdicts = << >>

\* the call of generate with an empty output folder
InitRun == InitRunWith({})

InitInputs ==
    /\ total_rows \in RowCounts
    /\ marked_row \in Profiles
    /\ ignore_missing \in (IF marked_row = RowStubborn THEN {TRUE}
                           ELSE IF marked_row.render = "missing" THEN BOOLEAN
                           ELSE {FALSE})
    /\ word_template_path \in {"", "T0"}
    /\ template_mapping \in Mappings
    /\ use_multiprocessing \in BOOLEAN
    /\ max_workers \in 1..MaxWorkers
    /\ templateFiles \in SUBSET TemplatePaths
    /\ row_dict = << >>
    /\ candidate = << >>

\* a run whose environment produces no fault
Init == InitInputs /\ faults = {} /\ InitRun

\* a run whose environment may produce faults, with the base template alone
InitFaulty ==
    /\ InitInputs
    /\ marked_row \in {RowNamed, RowBroken, RowDefault}
    /\ ignore_missing = (marked_row = RowDefault)
    /\ template_mapping = NoMapping
    /\ word_template_path = "T0"
    /\ templateFiles \in {{}, {"T0"}}
    /\ max_workers = MaxWorkers
    /\ faults \in {{f} : f \in Faults} \cup {Faults}
    /\ InitRun

(***************************************************************************)
(* generate                                                                *)
(***************************************************************************)
BaseCheckSkipped == FALSE

\* "if word_template_path and not os.path.exists(word_template_path)"
BaseTemplateMissing ==
    word_template_path # "" /\ word_template_path \notin templateFiles

PrecheckTemplatesFirst ==
    IF BaseTemplateMissing THEN "base_missing"
    ELSE IF ValidTemplates = {} THEN "no_templates"
    ELSE IF total_rows = 0 THEN "empty"
    ELSE "run"

\* the checks generate makes before any work, in its order: "empty" (no
\* row), "base_missing" and "no_templates" (the two fatal errors), "run"
Precheck ==
    IF total_rows = 0 THEN "empty"
    ELSE IF BaseTemplateMissing THEN "base_missing"
    ELSE IF ValidTemplates = {} THEN "no_templates"
    ELSE "run"

UseSingleProcessBelow ==
    ~use_multiprocessing \/ total_rows < SingleProcessThreshold

\* "if not use_multiprocessing or total_rows <= 50"
UseSingleProcess == ~use_multiprocessing \/ total_rows <= SingleProcessThreshold

\* generate, from its first line to the dispatch: the empty dataset, the
\* two fatal checks, the folders, the choice of the mode and, in the
\* multi-process mode, the chunks and their submission to the pool
Generate ==
    /\ pc = "idle"
    /\ IF Precheck = "empty"
       THEN \E raises \in CallbackRaises :
              /\ events' = IF raises THEN events ELSE Append(events, 0)
              /\ ret' = IF raises THEN FatalResult ELSE RunResult(0, << >>, FALSE)
              /\ pc' = "returned"
              /\ UNCHANGED <<mode, folders, idx, workers, makedirs_called,
                             wcache, wreads>>
       ELSE IF Precheck # "run"
       THEN /\ ret' = RunResult(0, << <<0, Precheck>> >>, FALSE)
            /\ pc' = "returned"
            /\ UNCHANGED <<mode, events, folders, idx, workers, makedirs_called,
                           wcache, wreads>>
       ELSE /\ makedirs_called' = FoldersToCreate
            /\ \E failed \in MakedirsFailures :
                 folders' = folders \cup (FoldersToCreate \ failed)
            /\ IF UseSingleProcess
               THEN /\ pc' = "single"
                    /\ mode' = "single"
                    /\ idx' = 1
                    /\ UNCHANGED <<workers, wcache, wreads>>
               ELSE /\ pc' = "multi"
                    /\ mode' = "multi"
                    /\ fut' = [c \in ChunkIds |-> "pending"]
                    /\ wpos' = [c \in ChunkIds |-> ChunkStartIdx(c)]
                    /\ wfile' = [c \in ChunkIds |-> << >>]
                    /\ wcount' = [c \in ChunkIds |-> 0]
                    /\ werrs' = [c \in ChunkIds |-> << >>]
                    /\ wcache' = [c \in ChunkIds |-> {}]
                    /\ wreads' = [c \in ChunkIds |-> NoReads]
                    /\ UNCHANGED idx
            /\ UNCHANGED <<events, ret>>
    /\ UNCHANGED <<inputs, pure, renders, template_cache, reads, broke,
                   done_at_break, cancel_event, written, jobs, totals, merged>>

\* the progress event due before row i, if any
ProgressDue(i) == i % ProgressEvery = 0 \/ i = total_rows

\* int(idx / total_rows * 100)
Percent(done, total) == (done * 100) \div total

CancelIgnored == FALSE

\* cancel_event.is_set()
CancelObserved == cancel_event

FinalEventSkipped(ev) == ev

\* progress_cb(100, ...), the last statement before the return of a mode
FinalEvent(ev) == Append(ev, FinalProgress)

\* one iteration of the loop of _generate_single_process: the check of the
\* cancel event, the progress event, the job of row idx
SingleRow ==
    /\ pc = "single"
    /\ idx <= total_rows
    /\ IF CancelObserved
       THEN /\ pc' = "single_break"
            /\ broke' = TRUE
            /\ UNCHANGED <<events, disk, jobs, idx, totals, ret, renders,
                           template_cache, reads>>
       ELSE \E raises \in CallbackRaises :
              IF ProgressDue(idx) /\ raises
              THEN /\ pc' = "returned"
                   /\ ret' = FatalResult
                   /\ UNCHANGED <<broke, events, disk, jobs, idx, totals, renders,
                                  template_cache, reads>>
              ELSE LET output_file == UniqueFilePath(OutputFile(idx), files)
                       tp == ResolveTemplate(Row(idx))
                       result == ProcessSingleDocument(idx)
                   IN  /\ events' = IF ProgressDue(idx)
                                    THEN Append(events, Percent(idx, total_rows))
                                    ELSE events
                       /\ IF TemplateUsable(tp)
                          THEN /\ template_cache' = CacheAfterLoad(tp, template_cache)
                               /\ reads' = ReadsAfterLoad(tp, template_cache, reads)
                               /\ renders' = [renders EXCEPT
                                                ![idx] = @ + RenderCalls(Row(idx))]
                          ELSE UNCHANGED <<template_cache, reads, renders>>
                       /\ attempts' = [attempts EXCEPT ![idx] = @ + 1]
                       /\ outcomes' = [outcomes EXCEPT ![idx] = @ + 1]
                       /\ IF result = "success"
                          THEN /\ written' = written \cup {<<output_file, idx>>}
                               /\ successful_count' = successful_count + 1
                               /\ UNCHANGED error_messages
                          ELSE /\ error_messages' =
                                     Append(error_messages, <<idx, result>>)
                               /\ UNCHANGED <<written, successful_count>>
                       /\ idx' = idx + 1
                       /\ UNCHANGED <<pc, broke, folders, completed, ret>>
    /\ UNCHANGED <<inputs, pure, makedirs_called, wcache, wreads, mode,
                   done_at_break, cancel_event, workers, merged>>

\* the end of _generate_single_process, after the loop ended or broke: the
\* final progress event and the return
SingleFinish ==
    /\ pc \in {"single", "single_break"}
    /\ pc = "single" => idx > total_rows
    /\ \E raises \in CallbackRaises :
         /\ events' = IF raises THEN events ELSE FinalEvent(events)
         /\ ret' = IF raises THEN FatalResult
                   ELSE RunResult(successful_count, error_messages, FALSE)
    /\ pc' = "returned"
    /\ UNCHANGED <<inputs, pure, engine, mode, broke, done_at_break, cancel_event, disk, jobs,
                   idx, totals, workers, merged>>

(***************************************************************************)
(* The process pool                                                        *)
(***************************************************************************)
InState(st) == {c \in DOMAIN fut : fut[c] = st}

\* the first chunk, in submission order, in state st
First(st) == CHOOSE c \in InState(st) : \A d \in InState(st) : c <= d

\* The pool moves the next submitted call to its call queue, which holds
\* max_workers + 1 calls; from then on the future cannot be cancelled.
PoolEnqueue ==
    /\ pc \in {"multi", "multi_exit"}
    /\ InState("pending") # {}
    /\ Cardinality(InState("queued")) < max_workers + ExtraQueuedCalls
    /\ fut' = [fut EXCEPT ![First("pending")] = "queued"]
    /\ UNCHANGED <<inputs, pure, engine, control, cancel_event, events, disk, jobs, idx, totals,
                   wpos, wfile, wcount, werrs, merged, ret>>

\* A free worker process takes the next call of the queue and runs
\* _worker_process_chunk up to its row loop; the future of a chunk that
\* cannot run raises.
WorkerStart ==
    /\ pc \in {"multi", "multi_exit"}
    /\ InState("queued") # {}
    /\ Cardinality(InState("running")) < max_workers
    /\ \E raises \in ChunkRaises :
         fut' = [fut EXCEPT ![First("queued")] =
                    IF raises THEN "failed" ELSE "running"]
    /\ UNCHANGED <<inputs, pure, engine, control, cancel_event, events, disk, jobs, idx, totals,
                   wpos, wfile, wcount, werrs, merged, ret>>

\* the row loop of _worker_process_chunk, first half: the names of the
\* row and its output file, made unique against the files that exist now
WorkerAllocate(c) ==
    /\ fut[c] = "running"
    /\ wpos[c] <= ChunkLast(c)
    /\ wfile[c] = << >>
    /\ wfile' = [wfile EXCEPT ![c] = UniqueFilePath(OutputFile(wpos[c]), files)]
    /\ attempts' = [attempts EXCEPT ![wpos[c]] = @ + 1]
    /\ UNCHANGED <<inputs, pure, engine, control, cancel_event, events, disk, outcomes, idx,
                   totals, fut, wpos, wcount, werrs, merged, ret>>

\* the row loop of _worker_process_chunk, second half: the template, the
\* context, the render and the save of the row in progress
WorkerRender(c) ==
    /\ fut[c] = "running"
    /\ wfile[c] # << >>
    /\ LET i == wpos[c]
           tp == ResolveTemplate(Row(i))
           result == WorkerProcessRow(i)
       IN  /\ IF TemplateUsable(tp)
              THEN /\ wcache' = [wcache EXCEPT ![c] = CacheAfterLoad(tp, @)]
                   /\ wreads' = [wreads EXCEPT
                                   ![c] = ReadsAfterLoad(tp, wcache[c], @)]
                   /\ renders' = [renders EXCEPT ![i] = @ + RenderCalls(Row(i))]
              ELSE UNCHANGED <<wcache, wreads, renders>>
           /\ IF result = "success"
              THEN /\ written' = written \cup {<<wfile[c], i>>}
                   /\ wcount' = [wcount EXCEPT ![c] = @ + 1]
                   /\ UNCHANGED werrs
              ELSE /\ werrs' = [werrs EXCEPT ![c] = Append(@, <<i, result>>)]
                   /\ UNCHANGED <<written, wcount>>
           /\ outcomes' = [outcomes EXCEPT ![i] = @ + 1]
    /\ wpos' = [wpos EXCEPT ![c] = @ + 1]
    /\ wfile' = [wfile EXCEPT ![c] = << >>]
    /\ UNCHANGED <<inputs, pure, makedirs_called, template_cache, reads, control,
                   cancel_event, events, folders, attempts, idx, totals, fut,
                   merged, ret>>

\* _worker_process_chunk returns its result dict: the future is done
WorkerReturn(c) ==
    /\ fut[c] = "running"
    /\ wpos[c] > ChunkLast(c)
    /\ fut' = [fut EXCEPT ![c] = "done"]
    /\ UNCHANGED <<inputs, pure, engine, control, cancel_event, events, disk, jobs, idx, totals,
                   wpos, wfile, wcount, werrs, merged, ret>>

(***************************************************************************)
(* _generate_multiprocess                                                  *)
(***************************************************************************)
ChunkFailureDropped == << >>

\* "except Exception as e: error_messages.append(f"进程执行失败: ...")": the
\* one message of a chunk whose future raised
ChunkFailure == << <<0, "chunk_failed">> >>

\* One iteration of "for future in as_completed(futures)" for the finished
\* future of chunk c: the check of the cancel event, then the merge of the
\* result and the progress event. An exception of future.result() or of
\* progress_cb is caught and recorded as one message.
Completion(c) ==
    /\ pc = "multi"
    /\ fut[c] \in {"done", "failed"}
    /\ c \notin merged
    /\ IF CancelObserved
       THEN /\ fut' = [k \in DOMAIN fut |->
                         IF fut[k] = "pending" THEN "cancelled" ELSE fut[k]]
            /\ pc' = "multi_exit"
            /\ broke' = TRUE
            /\ done_at_break' = InState("done")
            /\ UNCHANGED <<events, totals, merged>>
       ELSE /\ completed' = completed + 1
            /\ merged' = merged \cup {c}
            /\ pc' = IF merged' = ChunkIds THEN "multi_exit" ELSE "multi"
            /\ UNCHANGED <<broke, done_at_break>>
            /\ IF fut[c] = "failed"
               THEN /\ error_messages' = error_messages \o ChunkFailure
                    /\ UNCHANGED <<successful_count, events>>
               ELSE \E raises \in CallbackRaises :
                      /\ successful_count' = successful_count + wcount[c]
                      /\ error_messages' =
                            IF raises
                            THEN (error_messages \o werrs[c]) \o ChunkFailure
                            ELSE error_messages \o werrs[c]
                      /\ events' = IF raises THEN events
                                   ELSE Append(events, Percent(completed', TotalChunks))
            /\ UNCHANGED fut
    /\ UNCHANGED <<inputs, pure, engine, mode, cancel_event, disk, jobs, idx, wpos, wfile,
                   wcount, werrs, ret>>

PoolNotAwaited == TRUE

\* the exit of "with ProcessPoolExecutor(...) as executor" returns: the pool
\* holds no call that is waiting or running
PoolShutDown ==
    /\ InState("pending") = {}
    /\ InState("queued") = {}
    /\ InState("running") = {}

\* The end of _generate_multiprocess: leaving the with block waits for the
\* calls the pool still holds, then the final progress event and the return.
MultiFinish ==
    /\ pc = "multi_exit"
    /\ PoolShutDown
    /\ \E raises \in CallbackRaises :
         /\ events' = IF raises THEN events ELSE FinalEvent(events)
         /\ ret' = IF raises THEN FatalResult
                   ELSE RunResult(successful_count, error_messages, FALSE)
    /\ pc' = "returned"
    /\ UNCHANGED <<inputs, pure, engine, mode, broke, done_at_break, cancel_event, disk, jobs,
                   idx, totals, workers, merged>>

\* the caller sets the cancel event while the run is in progress
Cancel ==
    /\ pc # "returned"
    /\ ~cancel_event
    /\ cancel_event' = TRUE
    /\ UNCHANGED <<inputs, pure, engine, control, events, disk, jobs, idx, totals, workers,
                   merged, ret>>

Next ==
    \/ Generate
    \/ SingleRow
    \/ SingleFinish
    \/ PoolEnqueue
    \/ WorkerStart
    \/ \E c \in DOMAIN fut : WorkerAllocate(c)
    \/ \E c \in DOMAIN fut : WorkerRender(c)
    \/ \E c \in DOMAIN fut : WorkerReturn(c)
    \/ \E c \in DOMAIN fut : Completion(c)
    \/ MultiFinish
    \/ Cancel

Spec == Init /\ [][Next]_vars

SpecFaulty == InitFaulty /\ [][Next]_vars

(***************************************************************************)
(* Runs whose processes keep running                                       *)
(***************************************************************************)
\* the most chunks a dataset of the model is cut into
MaxChunks ==
    (SingleProcessThreshold + MaxExtraRows + MinChunkSize - 1) \div MinChunkSize

\* runs of both modes with the base template alone
InitLive ==
    /\ total_rows \in {MaxSmallRows, SingleProcessThreshold + 1}
    /\ marked_row \in {RowNamed, RowBroken}
    /\ ignore_missing = FALSE
    /\ word_template_path = "T0"
    /\ template_mapping = NoMapping
    /\ use_multiprocessing \in BOOLEAN
    /\ max_workers = MaxWorkers
    /\ templateFiles = {"T0"}
    /\ faults = {}
    /\ row_dict = << >>
    /\ candidate = << >>
    /\ InitRun

\* the worker process of chunk c is scheduled as long as it has a step to take
FairWorker(c) ==
    /\ WF_vars(c \in DOMAIN fut /\ WorkerAllocate(c))
    /\ WF_vars(c \in DOMAIN fut /\ WorkerRender(c))
    /\ WF_vars(c \in DOMAIN fut /\ WorkerReturn(c))

\* The thread of generate and the processes of the pool keep running; the
\* caller is free never to set the cancel event.
SpecLive ==
    /\ InitLive
    /\ [][Next]_vars
    /\ WF_vars(Generate) /\ WF_vars(SingleRow) /\ WF_vars(SingleFinish)
    /\ WF_vars(PoolEnqueue) /\ WF_vars(WorkerStart)
    /\ WF_vars(\E c \in DOMAIN fut : Completion(c)) /\ WF_vars(MultiFinish)
    /\ \A c \in 1..MaxChunks : FairWorker(c)

(***************************************************************************)
(* The template resolution, alone                                          *)
(***************************************************************************)
\* the sub-mappings of the columns "A", "B" and "C D"
EntriesA == {[field |-> "A", isDict |-> TRUE, mapping |-> {<< <<"x">>, "TA" >>}],
             [field |-> "A", isDict |-> TRUE,
              mapping |-> {<< <<"y">>, "TA" >>, << <<"z">>, "TZ" >>}]}
EntriesB == {[field |-> "B", isDict |-> TRUE, mapping |-> {<< <<"x">>, "TB" >>}],
             [field |-> "B", isDict |-> TRUE, mapping |-> {<< <<"y">>, "TB" >>}]}
EntryCD == [field |-> "C D", isDict |-> TRUE, mapping |-> {<< <<"x">>, "TC" >>}]

\* the mappings: columns in dict order, with or without "__priority__"
ResolveFields ==
    {<< >>, <<EntryCD>>}
      \cup {<<a>> : a \in EntriesA}
      \cup {<<a, b>> : a \in EntriesA, b \in EntriesB}
      \cup {<<b, a>> : a \in EntriesA, b \in EntriesB}
      \cup {<<a, EntryCD, b>> : a \in EntriesA, b \in EntriesB}
ResolvePriorities ==
    {<< >>, <<"B">>, <<"A", "B">>, <<"B", "A">>, <<"Z", "B", "A">>, <<"C D", "A">>}
ResolveMappings ==
    {[priority |-> << >>, hasPriority |-> FALSE, fields |-> f] : f \in ResolveFields}
      \cup {[priority |-> q, hasPriority |-> TRUE, fields |-> f] :
               q \in ResolvePriorities, f \in ResolveFields}

\* the rows: the values of the columns A, B and C_D
ResolveValues == {<< >>, <<"x">>, <<" ", "x", " ">>, <<"y">>}
ResolveRows ==
    {[A |-> a, B |-> b, C_D |-> c, render |-> "ok", keep |-> "ok"] :
        a \in ResolveValues, b \in ResolveValues, c \in {<< >>, <<"x">>}}

InitResolve ==
    /\ total_rows = 1
    /\ marked_row \in ResolveRows
    /\ template_mapping \in ResolveMappings
    /\ word_template_path \in {"", "T0"}
    /\ ignore_missing = FALSE
    /\ use_multiprocessing = FALSE
    /\ max_workers = 1
    /\ templateFiles = {"T0"}
    /\ faults = {}
    /\ row_dict = << >>
    /\ candidate = << >>
    /\ InitRun

\* the template selection of a job, for the row Row(1)
Resolve ==
    /\ pc = "idle"
    /\ resolved' = ResolveTemplate(Row(1))
    /\ pc' = "resolved"
    /\ UNCHANGED <<inputs, mode, broke, done_at_break, cancel_event, events, disk,
                   jobs, idx, totals, workers, merged, ret, engine, chunks,
                   row_dict, context, names, candidate, allocated, verdicts>>

SpecResolve == InitResolve /\ [][Resolve]_vars

(***************************************************************************)
(* The context of a row, alone                                             *)
(***************************************************************************)
\* "编号", the key of the identifier: its two characters are written
\* "bian" and "hao"
Identifier == <<"bian", "hao">>

\* the values of a cell: a str, an int, or a float given by its whole part
\* and its first decimal
ContextValues ==
    {[t |-> "str", s |-> <<"a">>], [t |-> "int", n |-> 7],
     [t |-> "float", whole |-> 3, frac |-> 0],
     [t |-> "float", whole |-> 12, frac |-> 5]}

\* the column names
ContextNames ==
    {Identifier, <<"a", "bian", "hao">>, <<"N", "u", "m">>, <<"x", "I", "D">>,
     <<"n", "a", "m", "e">>}

\* the rows: up to MaxFields columns of distinct names, in dict order
ContextRows ==
    {r \in UNION {[1..n -> ContextNames \X ContextValues] : n \in 0..MaxFields} :
        \A j, k \in 1..Len(r) : r[j][1] = r[k][1] => j = k}

\* str.lower(), for the letters of the column names
LowerChar(ch) ==
    CASE ch = "N" -> "n" [] ch = "U" -> "u" [] ch = "M" -> "m"
      [] ch = "I" -> "i" [] ch = "D" -> "d" [] OTHER -> ch
Lower(name) == [k \in 1..Len(name) |-> LowerChar(name[k])]

\* "token in name"
Contains(name, token) ==
    \E k \in 1..(Len(name) - Len(token) + 1) :
        SubSeq(name, k, k + Len(token) - 1) = token

\* "if isinstance(value, float) and value.is_integer(): value = int(value)"
WholeFloatToInt(value) ==
    IF value.t = "float" /\ value.frac = 0
    THEN [t |-> "int", n |-> value.whole] ELSE value

\* str(value)
Str(value) ==
    CASE value.t = "str" -> value.s
      [] value.t = "int" -> Digits(value.n)
      [] OTHER -> Digits(value.whole) \o <<".">> \o <<DigitChar[value.frac + 1]>>

\* the string a cell gets in the context
Stringified(value) == Str(WholeFloatToInt(value))

\* the first loop: every column, stringified
ColumnsContext(row) ==
    [col \in {row[k][1] : k \in 1..Len(row)} |->
        Stringified(row[CHOOSE k \in 1..Len(row) : row[k][1] = col][2])]

\* 'col == "编号" or col == "编号".lower()'
IsIdentifier(col) == col = Identifier \/ col = Lower(Identifier)

IdentifierLikeCaseSensitive(field) ==
    \/ Contains(field, Identifier)
    \/ Contains(field, <<"n", "u", "m">>)
    \/ Contains(field, <<"i", "d">>)

\* '"编号" in field or "num" in field.lower() or "id" in field.lower()'
IdentifierLike(field) ==
    \/ Contains(field, Identifier)
    \/ Contains(Lower(field), <<"n", "u", "m">>)
    \/ Contains(Lower(field), <<"i", "d">>)

\* the context of a row: the columns, then the identifier key
BuildContext(row) ==
    LET columns == ColumnsContext(row)
        number_field_found == \E col \in DOMAIN columns : IsIdentifier(col)
        alike == {k \in 1..Len(row) : IdentifierLike(row[k][1])}
        first == CHOOSE k \in alike : \A j \in alike : k <= j
        found == IF number_field_found \/ alike = {} THEN columns
                 ELSE (Identifier :> Stringified(row[first][2])) @@ columns
    IN  IF Identifier \in DOMAIN found THEN found
        ELSE (Identifier :> << >>) @@ found

InitContext ==
    /\ total_rows = 1
    /\ marked_row = RowPlain
    /\ ignore_missing = FALSE
    /\ word_template_path = "T0"
    /\ template_mapping = NoMapping
    /\ use_multiprocessing = FALSE
    /\ max_workers = 1
    /\ templateFiles = {"T0"}
    /\ faults = {}
    /\ row_dict \in ContextRows
    /\ candidate = << >>
    /\ InitRun

\* the context of a job, for the row row_dict
Build ==
    /\ pc = "idle"
    /\ context' = BuildContext(row_dict)
    /\ pc' = "built"
    /\ UNCHANGED <<inputs, mode, broke, done_at_break, cancel_event, events, disk,
                   jobs, idx, totals, workers, merged, ret, engine, chunks,
                   resolved, row_dict, names, candidate, allocated, verdicts>>

SpecContext == InitContext /\ [][Build]_vars

(***************************************************************************)
(* The partition into chunks, alone                                        *)
(***************************************************************************)
\* a multi-process run of a dataset of any size up to MaxPartitionRows
InitPartition ==
    /\ total_rows \in (SingleProcessThreshold + 1)..MaxPartitionRows
    /\ max_workers \in 1..MaxPartitionWorkers
    /\ marked_row = RowPlain
    /\ ignore_missing = FALSE
    /\ word_template_path = "T0"
    /\ template_mapping = NoMapping
    /\ use_multiprocessing = TRUE
    /\ templateFiles = {"T0"}
    /\ faults = {}
    /\ row_dict = << >>
    /\ candidate = << >>
    /\ InitRun

\* _generate_multiprocess, from the chunk size to the list of chunks
Partition ==
    /\ pc = "idle"
    /\ chunks' = ChunksFrom(0)
    /\ pc' = "partitioned"
    /\ UNCHANGED <<inputs, mode, broke, done_at_break, cancel_event, events, disk,
                   jobs, idx, totals, workers, merged, ret, engine, resolved,
                   row_dict, context, names, candidate, allocated, verdicts>>

SpecPartition == InitPartition /\ [][Partition]_vars

(***************************************************************************)
(* The path allocator, alone                                               *)
(***************************************************************************)
\* os.path.join(output_path, folder_name), with its separator
AllocFolder == FolderPath(<<"F">>) \o <<"/">>

\* the names f"{file_name}.docx" of the output files, cut into base and
\* extension: a plain name, a name with a dot, a name that ends like a
\* numbered variant, and the file name "." whose "..docx" has no extension
AllocNames ==
    {[base |-> <<"a">>, ext |-> <<".", "d", "o", "c", "x">>],
     [base |-> <<"a", ".", "b">>, ext |-> <<".", "d", "o", "c", "x">>],
     [base |-> <<"a", "_", "1">>, ext |-> <<".", "d", "o", "c", "x">>],
     [base |-> <<".", ".", "d", "o", "c", "x">>, ext |-> << >>]}

\* the path of a name, and the path with "_k" between base and extension
PathOf(name) == AllocFolder \o name.base \o name.ext
Numbered(name, k) == AllocFolder \o name.base \o <<"_">> \o Digits(k) \o name.ext

\* the files on disk before the call: any of the path and its first three
\* numbered variants, with or without the path and all its numbered
\* variants up to MaxProbes
AllocDisks(name) ==
    {few \cup many :
        few \in SUBSET ({PathOf(name)} \cup {Numbered(name, k) : k \in 1..3}),
        many \in {{}, {PathOf(name)} \cup {Numbered(name, k) : k \in 1..MaxProbes}}}

InitAllocate ==
    /\ total_rows = 1
    /\ marked_row = RowPlain
    /\ ignore_missing = FALSE
    /\ word_template_path = "T0"
    /\ template_mapping = NoMapping
    /\ use_multiprocessing = FALSE
    /\ max_workers = 1
    /\ templateFiles = {"T0"}
    /\ faults = {}
    /\ row_dict = << >>
    /\ \E name \in AllocNames :
          /\ candidate = PathOf(name)
          /\ \E existing \in AllocDisks(name) : InitRunWith(existing)

\* output_file = _unique_file_path(output_file): the first call, and the
\* call that follows the save of the first call's file
Allocate ==
    /\ pc \in {"idle", "saved"}
    /\ allocated' = Append(allocated, UniqueFilePath(candidate, files))
    /\ pc' = IF pc = "idle" THEN "allocated" ELSE "reallocated"
    /\ UNCHANGED <<inputs, mode, broke, done_at_break, cancel_event, events, disk,
                   jobs, idx, totals, workers, merged, ret, engine, chunks,
                   resolved, row_dict, context, names, candidate, verdicts>>

\* doc.save(output_file): the file of the first call exists from now on
Save ==
    /\ pc = "allocated"
    /\ written' = written \cup {<<allocated[1], 1>>}
    /\ pc' = "saved"
    /\ UNCHANGED <<inputs, mode, broke, done_at_break, cancel_event, events,
                   folders, jobs, idx, totals, workers, merged, ret, engine, pure>>

SpecAllocate == InitAllocate /\ [][Allocate \/ Save]_vars

(***************************************************************************)
(* The names of a row, alone                                               *)
(***************************************************************************)
\* the characters of the field values: a letter, a dot, whitespace and
\* illegal characters
NameChars == {"a", ".", " ", "\t", "/", "?"}

\* the field values: the strings of up to MaxNameLen characters, and each
\* illegal character alone
NameValues ==
    UNION {[1..n -> NameChars] : n \in 0..MaxNameLen}
      \cup {<<ch>> : ch \in IllegalChars} \cup {<<"\n">>}

\* the values of the file field
FileValues == {<< >>, <<" ">>, <<"a">>, <<"b", "/", "?">>, <<" ", "*", "<", " ">>}

\* the rows: with both fields, or without one of them, or without both
NameRows ==
    {[folder |-> f, file |-> g, render |-> "ok", keep |-> "ok"] :
        f \in NameValues, g \in FileValues}
      \cup {[file |-> g, render |-> "ok", keep |-> "ok"] : g \in FileValues}
      \cup {[folder |-> f, render |-> "ok", keep |-> "ok"] : f \in NameValues}
      \cup {[render |-> "ok", keep |-> "ok"]}

\* a dataset of one or two rows, which are marked rows
InitNames ==
    /\ total_rows \in {1, 2}
    /\ marked_row \in NameRows
    /\ ignore_missing = FALSE
    /\ word_template_path = "T0"
    /\ template_mapping = NoMapping
    /\ use_multiprocessing = FALSE
    /\ max_workers = 1
    /\ templateFiles = {"T0"}
    /\ faults = {}
    /\ row_dict = << >>
    /\ candidate = << >>
    /\ InitRun

\* the first lines of a job, for the last row of the dataset: folder_name,
\* file_name and the output_file passed to _unique_file_path
Name ==
    /\ pc = "idle"
    /\ names' = [folder_name |-> FolderName(total_rows),
                 file_name |-> FileName(total_rows)]
    /\ candidate' = OutputFile(total_rows)
    /\ pc' = "named"
    /\ UNCHANGED <<inputs, mode, broke, done_at_break, cancel_event, events, disk,
                   jobs, idx, totals, workers, merged, ret, engine, chunks,
                   resolved, row_dict, context, allocated, verdicts>>

SpecNames == InitNames /\ [][Name]_vars

(***************************************************************************)
(* The two job functions, side by side                                     *)
(***************************************************************************)
\* a sub-mapping that is no dict: a number or None under the column "file"
NotADict == [field |-> "file", isDict |-> FALSE, mapping |-> {}]

\* the mappings of the runs, and mappings that hold the sub-mapping that
\* is no dict: alone, after the column "kind", and under a priority list
\* that names it or does not name it
JobMappings ==
    Mappings \cup
      {[priority |-> << >>, hasPriority |-> FALSE, fields |-> <<NotADict>>],
       [priority |-> << >>, hasPriority |-> FALSE, fields |-> <<KindEntry, NotADict>>],
       [priority |-> <<"kind", "file">>, hasPriority |-> TRUE,
        fields |-> <<NotADict, KindEntry>>],
       [priority |-> <<"kind">>, hasPriority |-> TRUE,
        fields |-> <<NotADict, KindEntry>>]}

\* a dataset of one row, which is a marked row
InitJobs ==
    /\ total_rows = 1
    /\ marked_row \in Profiles
    /\ ignore_missing \in BOOLEAN
    /\ word_template_path \in {"", "T0"}
    /\ template_mapping \in JobMappings
    /\ use_multiprocessing = FALSE
    /\ max_workers = 1
    /\ templateFiles \in SUBSET TemplatePaths
    /\ faults = {}
    /\ row_dict = << >>
    /\ candidate = << >>
    /\ InitRun

\* the first row of the run, given to the row loop of _worker_process_chunk
\* and to _process_single_document: the outcome of either, and the
\* template_path either has after its selection
Classify ==
    /\ pc = "single" /\ idx = 1
    /\ verdicts' =
          [worker |-> WorkerProcessRow(1),
           single |-> ProcessSingleDocument(1),
           worker_template |-> IF SelectionRaises(Row(1)) THEN {}
                               ELSE {ResolveTemplate(Row(1))},
           single_template |-> {SingleTemplatePath(Row(1))}]
    /\ pc' = "classified"
    /\ UNCHANGED <<inputs, mode, broke, done_at_break, cancel_event, events, disk,
                   jobs, idx, totals, workers, merged, ret, engine, chunks,
                   resolved, row_dict, context, names, candidate, allocated>>

SpecJobs == InitJobs /\ [][Generate \/ Classify]_vars

(***************************************************************************)
(* Properties                                                              *)
(***************************************************************************)
Rows == 1..total_rows

\* the rows whose job saved its file, and the rows whose job ended in an error
Successes == {w[2] : w \in written}
Failures == {i \in Rows : outcomes[i] > 0} \ Successes

Last(seq) == seq[Len(seq)]

RECURSIVE SumOver(_, _)
SumOver(S, f) == IF S = {} THEN 0
                 ELSE LET x == CHOOSE y \in S : TRUE
                      IN  f[x] + SumOver(S \ {x}, f)

\* the rows named by the messages of an error list (0: no row)
ErrorRows(errors) == {errors[k][1] : k \in 1..Len(errors)}

Returned == pc = "returned"

\* C1: in a run of either mode every row is processed at most once and a
\* processed row yields exactly one outcome; when the run has returned, a
\* row is unprocessed only if the loop broke on the cancel event, and the
\* unprocessed rows are a suffix of 1..N.
C1_EachRowOnce ==
    /\ \A i \in Rows : attempts[i] <= 1 /\ outcomes[i] <= attempts[i]
    /\ (Returned /\ mode # "none") =>
          /\ \A i \in Rows : outcomes[i] = attempts[i]
          /\ (\E i \in Rows : attempts[i] = 0) => broke
          /\ \A i, j \in Rows : (i < j /\ attempts[i] = 0) => attempts[j] = 0

C1_Witness ==
    /\ Returned /\ mode = "multi" /\ broke
    /\ attempts[1] = 1
    /\ attempts[total_rows] = 0

\* C2: no two jobs of a run write the same output file path.
C2_UniqueOutputPaths ==
    \A v, w \in written : v[1] = w[1] => v[2] = w[2]

\* C3: when the multi-process loop breaks on the cancel event, every chunk
\* whose future had finished at that moment, the one being handled
\* included, is merged into the returned result.
C3_CompletedChunksMerged ==
    (Returned /\ mode = "multi" /\ broke) =>
        /\ done_at_break \subseteq merged
        /\ ret.successful_count = SumOver(done_at_break, wcount)

\* C4: in the single-process mode, once the cancel event is set no further
\* row is processed; after the break the processed rows are a prefix 1..k
\* and generate returns the successes and errors of that prefix, with no
\* fatal error.
C4_Prefix ==
    (Returned /\ mode = "single" /\ broke) =>
        \E k \in 0..total_rows :
            /\ \A i \in Rows : attempts[i] = (IF i <= k THEN 1 ELSE 0)
            /\ ret.successful_count = Cardinality(Successes)
            /\ ErrorRows(ret.error_messages) = (1..k) \ Successes
            /\ ret.successful_count + Len(ret.error_messages) = k
            /\ ~ret.fatal_error

C4_SingleCancel ==
    /\ []C4_Prefix
    /\ [][(mode = "single" /\ cancel_event) =>
            (attempts' = attempts /\ outcomes' = outcomes /\ written' = written)]_vars

C4_Witness ==
    /\ Returned /\ mode = "single" /\ broke
    /\ attempts[1] = 1
    /\ attempts[total_rows] = 0
    /\ ret.successful_count > 0

\* C5 as claimed: whenever generate has returned, the last progress event
\* it emitted has percent 100.
C5_AlwaysFinalEvent ==
    Returned => (events # << >> /\ Last(events) = 100)

\* C5 as amended: a run that passed the preconditions and ended by
\* completion or cancellation emitted a last event of percent 100; the
\* empty dataset emits one event of percent 0; a fatal precondition
\* failure emits no event.
C5_FinalEventOfAMode ==
    Returned =>
        /\ (mode # "none" /\ ~ret.fatal_error) =>
              (events # << >> /\ Last(events) = 100)
        /\ (total_rows = 0 /\ ~ret.fatal_error) => events = <<0>>
        /\ (total_rows > 0 /\ mode = "none") => events = << >>

C5_Witness ==
    /\ Returned /\ mode = "multi" /\ broke /\ ~ret.fatal_error
    /\ Last(events) = 100

C7_FatalBeforeAnyWork ==
    ((word_template_path # "" /\ word_template_path \notin templateFiles)
        \/ ValidTemplates = {}) =>
        /\ folders = {}
        /\ written = {}
        /\ \A i \in Rows : attempts[i] = 0
        /\ fut = << >>
        /\ mode = "none"
        /\ Returned => ret.successful_count = 0

C7_Witness ==
    /\ Returned /\ total_rows > 0
    /\ word_template_path # "" /\ word_template_path \notin templateFiles
    /\ ValidTemplates # {}
    /\ ret.error_messages # << >>

\* C8: for an empty dataset generate returns 0, no message and no fatal
\* error, and it checks no template, creates no folder and runs no job.
C8_EmptyIsNoOp ==
    total_rows = 0 =>
        /\ folders = {}
        /\ written = {}
        /\ fut = << >>
        /\ mode = "none"
        /\ Returned => ret = RunResult(0, << >>, FALSE)

C8_Witness ==
    /\ Returned /\ total_rows = 0
    /\ word_template_path # "" /\ word_template_path \notin templateFiles

\* C9: a run that passes the preconditions is single-process exactly when
\* multiprocessing is disabled or the dataset has at most 50 rows, and
\* multi-process otherwise.
C9_ModeSelection ==
    (pc # "idle" /\ Precheck = "run") =>
        mode = (IF ~use_multiprocessing \/ total_rows <= 50
                THEN "single" ELSE "multi")

C9_Witness ==
    /\ mode = "single" /\ use_multiprocessing /\ total_rows = 50

\* C10: a run that passed the preconditions and was not stopped by the
\* cancel event returns a count and an error list that add up to N.
C10_CountsAddUp ==
    (Returned /\ mode # "none" /\ ~broke) =>
        ret.successful_count + Len(ret.error_messages) = total_rows

C10_Witness ==
    /\ Returned /\ mode = "multi" /\ ~broke /\ TotalChunks > 1
    /\ ret.successful_count > 0 /\ ret.error_messages # << >>

\* the chunk that holds row i
ChunkOf(i) == ((i - 1) \div ChunkSize) + 1

\* the error lists the row loops have filled so far: the one of the
\* single-process loop, or the ones of the workers
ErrorLists == IF mode = "single" THEN {error_messages}
              ELSE {werrs[c] : c \in DOMAIN werrs}

\* the rows with a message of one of the kinds of K, and the rows with a message
RowsWithKind(K) ==
    UNION {{e[k][1] : k \in {n \in 1..Len(e) : e[n][2] \in K}} : e \in ErrorLists}
FailedRows == UNION {ErrorRows(e) : e \in ErrorLists}

\* no row has two messages
OneMessagePerRow == \A e \in ErrorLists : Len(e) = Cardinality(ErrorRows(e))

\* the template of a row is empty or not among the usable templates
Unusable(row) ==
    LET tp == ResolveTemplate(row)
    IN  tp = "" \/ tp \notin {p \in templateFiles : p \in TemplatePathsToCheck}

\* a row must fail by its content: its template is unusable, a placeholder
\* is missing and not ignored, or the render or its retry raises
RowFails(row) ==
    \/ row.render = "error"
    \/ row.render = "missing" /\ (~ignore_missing \/ row.keep = "error")
    \/ Unusable(row)

NoUsableTemplate(i) == Unusable(Row(i))

\* the save of row i must raise: its folder was not created
SaveFails(i) == makedirs_called # folders /\ FolderPath(FolderName(i)) \notin folders

\* C11: always - a row that fails is recorded as one error of that row and
\* writes no file, a row that does not fail is a success with no message, and
\* a failure stops nothing: the single-process loop that did not break has
\* processed every row, and a chunk that returned has processed every row of
\* the chunk.
C11_RowFailureIsLocal ==
    [](LET succeeded == Successes
           failed == FailedRows
           markedFails == RowFails(marked_row)
           plainFails == RowFails(RowPlain)
       IN  /\ OneMessagePerRow
           /\ \A i \in Rows : outcomes[i] = 1 =>
                 IF (IF Marked(i) THEN markedFails ELSE plainFails) \/ SaveFails(i)
                 THEN i \notin succeeded /\ i \in failed
                 ELSE i \in succeeded /\ i \notin failed
           /\ pc = "single" => \A i \in Rows : i < idx => outcomes[i] = 1
           /\ (Returned /\ mode = "single" /\ ~broke) =>
                 \A i \in Rows : outcomes[i] = 1
           /\ \A c \in DOMAIN fut : fut[c] = "done" =>
                 \A i \in Rows : ChunkOf(i) = c => outcomes[i] = 1)

C11_Witness ==
    /\ Returned /\ mode = "multi" /\ ~broke
    /\ marked_row = RowBroken
    /\ outcomes[1] = 1 /\ 1 \notin Successes
    /\ SingleProcessThreshold \in Successes

\* C12: always - a row whose resolved template path is empty or not usable
\* gets one error that says so, the rendering engine is not called for it and
\* it writes no file; a row of the same run whose template is usable and
\* whose render succeeds is still a success.
C12_TemplateUnavailable ==
    [](LET succeeded == Successes
           unavailable == RowsWithKind({"template_unavailable", "no_template"})
           markedUnusable == Unusable(marked_row)
           plainUnusable == Unusable(RowPlain)
       IN  /\ OneMessagePerRow
           /\ \A i \in Rows : outcomes[i] = 1 =>
                 IF (IF Marked(i) THEN markedUnusable ELSE plainUnusable)
                 THEN renders[i] = 0 /\ i \notin succeeded /\ i \in unavailable
                 ELSE /\ renders[i] > 0
                      /\ i \notin unavailable
                      /\ Row(i).render = "ok" => i \in succeeded)

C12_Witness ==
    /\ Returned /\ ~broke /\ total_rows >= 3
    /\ NoUsableTemplate(1) /\ outcomes[1] = 1 /\ renders[1] = 0
    /\ ~NoUsableTemplate(3) /\ 3 \in Successes

\* C13: for a row whose render reports a missing placeholder - with
\* ignore_missing the render is called a second time, and if that call
\* succeeds the file is saved and the row is a success; without
\* ignore_missing the render is called once, one "missing placeholder"
\* error is recorded and no file is saved.
C13_MissingPlaceholder ==
    LET succeeded == Successes
        failed == FailedRows
        missing == RowsWithKind({"missing_placeholder"})
        markedUsable == ~Unusable(marked_row)
        plainUsable == ~Unusable(RowPlain)
    IN  /\ OneMessagePerRow
        /\ \A i \in Rows :
             (/\ outcomes[i] = 1
              /\ Row(i).render = "missing"
              /\ IF Marked(i) THEN markedUsable ELSE plainUsable) =>
                IF ignore_missing
                THEN /\ renders[i] = 2
                     /\ i \notin missing
                     /\ Row(i).keep = "ok" => (i \in succeeded /\ i \notin failed)
                ELSE renders[i] = 1 /\ i \in missing /\ i \notin succeeded

C13_Witness ==
    /\ Returned /\ mode = "multi" /\ ignore_missing
    /\ Row(1).render = "missing" /\ Row(1).keep = "ok"
    /\ renders[1] = 2 /\ 1 \in Successes

\* C14: the chunks are an ordered partition of the dataset. With
\* size = max(50, total_rows div max_workers), chunk k (counted from 0) holds
\* the indices k*size+1 .. min((k+1)*size, N) in order, each with its own
\* row; its starting index is its first index; every chunk but the last has
\* size rows; every index of 1..N is in exactly one chunk. The chunks are
\* the ranges ChunkStartIdx .. ChunkLast that the workers of the model walk.
C14_ChunksPartition ==
    pc = "partitioned" =>
        LET size == IF 50 >= total_rows \div max_workers
                    THEN 50 ELSE total_rows \div max_workers
            first(k) == (k - 1) * size + 1
            last(k) == IF k * size <= total_rows THEN k * size ELSE total_rows
            holds(k, i) == \E j \in 1..Len(chunks[k].chunk_data) :
                              chunks[k].chunk_data[j].idx = i
        IN  /\ \A k \in 1..Len(chunks) :
                 /\ Len(chunks[k].chunk_data) = last(k) - first(k) + 1
                 /\ Len(chunks[k].chunk_data) >= 1
                 /\ \A j \in 1..Len(chunks[k].chunk_data) :
                       /\ chunks[k].chunk_data[j].idx = first(k) + j - 1
                       /\ chunks[k].chunk_data[j].row = chunks[k].chunk_data[j].idx
                 /\ chunks[k].chunk_start_idx = chunks[k].chunk_data[1].idx
                 /\ k < Len(chunks) => Len(chunks[k].chunk_data) = size
            /\ \A i \in 1..total_rows :
                 Cardinality({k \in 1..Len(chunks) : holds(k, i)}) = 1
            /\ Len(chunks) = TotalChunks
            /\ \A k \in 1..Len(chunks) :
                 /\ chunks[k].chunk_start_idx = ChunkStartIdx(k)
                 /\ chunks[k].chunk_data[Len(chunks[k].chunk_data)].idx = ChunkLast(k)

C14_Witness ==
    /\ pc = "partitioned"
    /\ Len(chunks) > max_workers
    /\ Len(chunks[1].chunk_data) > MinChunkSize
    /\ Len(chunks[Len(chunks)].chunk_data) < Len(chunks[1].chunk_data)

\* the columns of a mapping in the order they are tried: the columns of
\* the priority list that are keys of the mapping, or the keys in dict order
Keys(m) == {m.fields[k].field : k \in 1..Len(m.fields)}
TriedColumns(m) ==
    IF m.hasPriority
    THEN SelectSeq(m.priority, LAMBDA f : f \in Keys(m))
    ELSE [k \in 1..Len(m.fields) |-> m.fields[k].field]

\* the templates the sub-mapping of column f maps the row's value to
SubMapping(m, f) == (CHOOSE e \in {m.fields[k] : k \in 1..Len(m.fields)} : e.field = f).mapping
HitsOf(m, row, f) ==
    {kv[2] : kv \in {e \in SubMapping(m, f) : e[1] = Strip(RowValue(row, f))}}

\* C15: the resolved template is the one mapped to the row's value by the
\* first column, in the order the columns are tried (the priority list when
\* there is one, the mapping order otherwise), that has a matching value;
\* earlier columns without a match are skipped; with no match at all, or
\* no mapping, it is the base template path.
C15_FirstMatchWins ==
    pc = "resolved" =>
        LET m == template_mapping
            row == Row(1)
            cols == TriedColumns(m)
            matching == {n \in 1..Len(cols) : HitsOf(m, row, cols[n]) # {}}
        IN  IF matching = {}
            THEN resolved = word_template_path
            ELSE \E n \in matching :
                    /\ \A k \in matching : n <= k
                    /\ resolved \in HitsOf(m, row, cols[n])

C15_Witness ==
    /\ pc = "resolved"
    /\ template_mapping.hasPriority
    /\ template_mapping.priority = <<"A", "B">>
    /\ Keys(template_mapping) = {"A", "B"}
    /\ HitsOf(template_mapping, Row(1), "A") = {}
    /\ resolved = "TB"

\* the messages of a list that name no row: the chunk-level failures
ChunkMessages(errors) == {k \in 1..Len(errors) : errors[k][1] = 0}

\* C16: in a multi-process run that was not cancelled, a chunk whose future
\* raised leaves exactly one message and stops nothing: the loop ends only
\* when every chunk's completion was handled, and the result holds the
\* counts and the messages of every chunk that returned.
C16_ChunkFailureIsLocal ==
    /\ (pc = "multi_exit" /\ ~broke) => merged = ChunkIds
    /\ (Returned /\ mode = "multi" /\ ~broke /\ ~ret.fatal_error) =>
          LET returned == InState("done")
              raised == InState("failed")
          IN  /\ returned \cup raised = ChunkIds
              /\ merged = ChunkIds
              /\ ret.successful_count = SumOver(returned, wcount)
              /\ "callback" \notin faults =>
                    /\ Cardinality(ChunkMessages(ret.error_messages))
                          = Cardinality(raised)
                    /\ Len(ret.error_messages)
                          = Cardinality(raised)
                              + SumOver(returned, [c \in ChunkIds |-> Len(werrs[c])])

C16_Witness ==
    /\ Returned /\ mode = "multi" /\ ~broke /\ ~ret.fatal_error
    /\ faults = {"chunk"}
    /\ fut[1] = "failed"
    /\ fut[2] = "done"
    /\ ret.successful_count > 0

\* the worker of chunk c has started the job of a row and not ended it
InProgress(c) == c \in DOMAIN fut /\ fut[c] = "running" /\ wfile[c] # << >>

\* C17: the cancel event is acted on at a boundary only - the loop breaks
\* before a row in the single-process mode and at a chunk completion in the
\* multi-process mode, and the break itself processes nothing; setting the
\* event changes no job, no worker and no file; no output file is ever
\* removed; a job that was started always reaches its outcome, and generate
\* does not return while a job is in progress.
C17_CancelAtBoundaries ==
    /\ [](Returned => \A i \in Rows : outcomes[i] = attempts[i])
    /\ [][written \subseteq written' /\ folders \subseteq folders']_vars
    /\ [][cancel_event' # cancel_event =>
            (disk' = disk /\ jobs' = jobs /\ workers' = workers /\ control' = control)]_vars
    /\ [][(~broke /\ broke') =>
            /\ cancel_event
            /\ jobs' = jobs /\ disk' = disk
            /\ IF mode = "single" THEN pc = "single"
               ELSE \E c \in DOMAIN fut : fut[c] \in {"done", "failed"} /\ c \notin merged]_vars
    /\ \A c \in 1..MaxChunks : InProgress(c) ~> ~InProgress(c)

C17_Witness ==
    /\ mode = "multi" /\ cancel_event /\ broke
    /\ InProgress(2)
    /\ written # {}

\* C18: the folders are created once, by generate, before any job and any
\* chunk: the step that leaves the precondition checks calls os.makedirs
\* for the distinct folders of all the rows, and after it no row is
\* processed yet and every chunk is still waiting; no later step creates a
\* folder; no job and no future exists before that step; and a folder that
\* could not be created aborts nothing - the run that is not cancelled,
\* and that no exception of the callback or of a chunk ends, still
\* processes every row.
C18_FoldersFirst ==
    /\ []((fut # << >> \/ \E i \in Rows : attempts[i] > 0) =>
            (pc # "idle" /\ mode # "none"))
    /\ [][(pc = "idle" /\ mode' # "none") =>
            /\ makedirs_called' = {FolderPath(FolderName(i)) : i \in Rows}
            /\ folders' \subseteq makedirs_called'
            /\ \A i \in Rows : attempts'[i] = 0
            /\ \A c \in DOMAIN fut' : fut'[c] = "pending"]_vars
    /\ [][pc # "idle" =>
            (makedirs_called' = makedirs_called /\ folders' = folders)]_vars
    /\ []((Returned /\ mode # "none" /\ ~broke /\ ~ret.fatal_error
              /\ "chunk" \notin faults) =>
            \A i \in Rows : attempts[i] = 1)

C18_Witness ==
    /\ Returned /\ mode = "multi" /\ ~broke /\ ~ret.fatal_error
    /\ Cardinality(makedirs_called) > 2
    /\ folders # makedirs_called
    /\ attempts[total_rows] = 1
    /\ ret.successful_count > 0 /\ ret.error_messages # << >>

\* C19: in every template cache - the one of the single-process loop and
\* the one of each chunk - a path is read from disk at most once, and the
\* paths held are exactly the paths read; no entry ever leaves a cache; the
\* cache of a chunk is written by the worker of that chunk alone, in a step
\* that writes to no other cache.
C19_CacheReadsOnce ==
    /\ [](/\ \A p \in TemplatePaths : reads[p] <= 1
          /\ template_cache = {p \in TemplatePaths : reads[p] = 1}
          /\ \A c \in DOMAIN wcache :
                /\ \A p \in TemplatePaths : wreads[c][p] <= 1
                /\ wcache[c] = {p \in TemplatePaths : wreads[c][p] = 1})
    /\ [][/\ template_cache \subseteq template_cache'
          /\ \A c \in DOMAIN wcache : wcache[c] \subseteq wcache'[c]]_vars
    /\ [][\A c \in DOMAIN wcache :
            wcache'[c] # wcache[c] =>
               /\ fut[c] = "running" /\ wpos'[c] = wpos[c] + 1
               /\ \A d \in DOMAIN wcache \ {c} : wcache'[d] = wcache[d]
               /\ template_cache' = template_cache]_vars

C19_Witness ==
    /\ Returned /\ mode = "multi" /\ DOMAIN wcache = {1, 2}
    /\ wcache[1] = {"T0", "T1"}
    /\ wcache[2] = {"T1"}
    /\ wreads[1]["T0"] = 1
    /\ renders[3] = 1 /\ renders[4] = 1

\* the text of a cell: a str as it is, an int in digits, a float of whole
\* value in the digits of that value, another float with its decimal
TextOf(value) ==
    IF value.t = "str" THEN value.s
    ELSE IF value.t = "int" THEN Digits(value.n)
    ELSE IF value.frac = 0 THEN Digits(value.whole)
    ELSE Digits(value.whole) \o <<".", DigitChar[value.frac + 1]>>

\* the column name holds the token "编号", or "num" or "id" in any case
NamedLikeIdentifier(name) ==
    \E j, k \in 1..Len(name) :
        \/ SubSeq(name, j, k) = <<"bian", "hao">>
        \/ Lower(SubSeq(name, j, k)) \in {<<"n", "u", "m">>, <<"i", "d">>}

\* C20: the context of a row always holds the key "编号": with the value
\* of the column named "编号" if there is one, else with the value of the
\* first column, in row order, whose name holds "编号", "num" or "id" in
\* any case, else with the empty string; every column of the row is in the
\* context as a string, a float of whole value without ".0".
C20_ContextHasIdentifier ==
    pc = "built" =>
        LET exact == {k \in 1..Len(row_dict) : row_dict[k][1] = <<"bian", "hao">>}
            alike == {k \in 1..Len(row_dict) : NamedLikeIdentifier(row_dict[k][1])}
        IN  /\ <<"bian", "hao">> \in DOMAIN context
            /\ context[<<"bian", "hao">>] =
                  IF exact # {}
                  THEN TextOf(row_dict[CHOOSE k \in exact : TRUE][2])
                  ELSE IF alike # {}
                  THEN TextOf(row_dict[CHOOSE k \in alike : \A j \in alike : k <= j][2])
                  ELSE << >>
            /\ \A k \in 1..Len(row_dict) :
                  /\ row_dict[k][1] \in DOMAIN context
                  /\ context[row_dict[k][1]] = TextOf(row_dict[k][2])
            /\ DOMAIN context = {row_dict[k][1] : k \in 1..Len(row_dict)}
                                  \cup {<<"bian", "hao">>}

C20_Witness ==
    /\ pc = "built"
    /\ Len(row_dict) = 3
    /\ row_dict[1][1] = <<"n", "a", "m", "e">>
    /\ row_dict[2] = << <<"x", "I", "D">>, [t |-> "float", whole |-> 3, frac |-> 0] >>
    /\ row_dict[3][1] = <<"N", "u", "m">>
    /\ context[Identifier] = <<"3">>

\* the rows whose job has ended
RowsDone == Cardinality({i \in Rows : outcomes[i] = 1})

\* C21: an iteration of the single-process loop emits a progress event
\* exactly when the index of its row is a multiple of 10 or the last index,
\* and the percent of the event is floor(100 * done / total), done being the
\* number of rows completed when the event is emitted.
C21_ProgressReportsDone ==
    [][(mode = "single" /\ idx' = idx + 1) =>
          /\ (events' # events) <=> (idx % 10 = 0 \/ idx = total_rows)
          /\ (events' # events) =>
                Last(events') = (100 * RowsDone) \div total_rows]_vars

\* the name of AllocNames the allocator was called with
AllocName == CHOOSE name \in AllocNames : PathOf(name) = candidate

\* the path the claim expects for the files on disk: the path itself when
\* it is not on disk, else the numbered variant of the smallest k >= 1 that
\* is not on disk
FirstFree(existing) ==
    IF candidate \notin existing THEN candidate
    ELSE LET free == {k \in 1..(MaxProbes + 2) : Numbered(AllocName, k) \notin existing}
         IN  Numbered(AllocName, CHOOSE k \in free : \A j \in free : k <= j)

\* C22: the allocator returns its path unchanged when no such file exists,
\* else the path with "_k" before the extension (as os.path.splitext cuts
\* it: a file name made of dots alone has none) for the smallest k >= 1
\* that no file has; the returned path is never one of a file that exists;
\* and the call that follows the save of the first call's file returns a
\* different path.
C22_AllocatorReturnsFirstFree ==
    /\ pc = "allocated" =>
          (allocated[1] = FirstFree(files) /\ allocated[1] \notin files)
    /\ pc = "saved" => allocated[1] \in files
    /\ pc = "reallocated" =>
          /\ allocated[2] = FirstFree(files)
          /\ allocated[2] \notin files
          /\ allocated[2] # allocated[1]

C22_Witness ==
    /\ pc = "reallocated"
    /\ AllocName.base = <<"a", ".", "b">>
    /\ allocated[1] = Numbered(AllocName, MaxProbes + 1)
    /\ allocated[2] = Numbered(AllocName, MaxProbes + 2)

\* the row holds the field with a value that is more than whitespace
HasText(row, field) ==
    /\ field \in DOMAIN row
    /\ \E k \in 1..Len(row[field]) : row[field][k] \notin {" ", "\t", "\n"}

\* no character of the name is one of < > : " / \ | ? *
Legal(name) ==
    \A k \in 1..Len(name) :
        name[k] \notin {"<", ">", ":", "\"", "/", "\\", "|", "?", "*"}

C24_SameClassification ==
    pc = "classified" =>
        /\ (verdicts.worker = "success") <=> (verdicts.single = "success")
        /\ verdicts.worker_template = verdicts.single_template

\* C25: when generate has returned, its successful_count is the number of
\* output files written during the run.
C25_CountIsFilesWritten ==
    Returned => ret.successful_count = Cardinality(files)

\* C26: generate eventually returns; when it has returned, no chunk is
\* waiting or running - a chunk that had started has processed all of its
\* rows, a chunk that was cancelled none; and after the return no file is
\* written, no job runs and no worker moves.
C26_ReturnsAfterWorkers ==
    /\ <>Returned
    /\ [](Returned =>
            \A c \in DOMAIN fut :
                /\ fut[c] \in {"done", "failed", "cancelled"}
                /\ fut[c] = "done" => wpos[c] = ChunkLast(c) + 1
                /\ fut[c] = "cancelled" =>
                      \A i \in ChunkStartIdx(c)..ChunkLast(c) : attempts[i] = 0)
    /\ [][Returned => (written' = written /\ jobs' = jobs /\ workers' = workers)]_vars

C26_Witness ==
    /\ Returned /\ mode = "multi" /\ broke
    /\ \E c \in DOMAIN fut : fut[c] = "done" /\ c \notin merged /\ wcount[c] > 0
    /\ ret.successful_count = 0

====
